---- MODULE Spec2Model ----
(***************************************************************************)
(* Holo1.5 endpoint: the serverless orchestrator (src/handler.py) and the  *)
(* OpenAI-compatible serving process (src/app/main.py).                    *)
(*                                                                         *)
(* Three state machines share this module:                                 *)
(*   SpecDispatch  handler / process_request     (variables h_...)         *)
(*   SpecWait      wait_for_service              (variables w_...)         *)
(*   SpecChat      load_model / health / chat_completions (svc_..., c_...) *)
(* and SpecJob composes the first and the third: the orchestrator's POST   *)
(* is served by chat_completions.                                          *)
(* Text is a sequence of strings: an f-string is the concatenation of its  *)
(* literal pieces and its interpolated values.                             *)
(***************************************************************************)
EXTENDS Integers, Sequences, FiniteSets, TLC

VARIABLES
    \* ---- handler / process_request (src/handler.py:39-180)
    h_pc,         \* "idle" | "post" | "sleep" | "done"
    h_event,      \* the event handler was called with
    h_input,      \* event.get("input", {})
    h_payload,    \* payload posted to /v1/chat/completions
    h_attempt,    \* loop variable of `for attempt in range(MAX_RETRIES)`
    h_error_msg,  \* local error_msg of the retry loop
    h_result,     \* what handler returned
    h_raised,     \* TRUE iff handler let an exception escape to its caller
    h_posts,      \* history: number of client.post calls of this invocation
    h_sleeps,     \* history: number of asyncio.sleep calls of this invocation
    h_slept,      \* history: total seconds slept in this invocation
    h_hist,       \* history: the downstream outcome of each attempt
    \* ---- wait_for_service (src/handler.py:21-36)
    w_pc,         \* "idle" | "poll" | "sleep" | "done"
    w_max_wait,   \* parameter max_wait
    w_elapsed,    \* time.time() - start_time, in seconds
    w_result,     \* "none" | "ready" | "not_ready"
    w_polls,      \* history: number of GET /health calls
    w_sleeps,     \* history: number of asyncio.sleep(2) calls
    w_slept,      \* history: total seconds slept
    w_last,       \* history: the outcome of the latest poll
    w_first_ready,  \* history: index of the first poll answered 200 + healthy + loaded (0: none)
    w_seen_healthy, \* history: some poll said healthy without model loaded
    w_seen_loaded,  \* history: some poll said model loaded without healthy
    \* ---- serving process (src/app/main.py)
    svc_pc,       \* load_model: "boot" | "weights" | "up" | "failed"
    svc_model,    \* global model is not None
    svc_processor,  \* global processor is not None
    svc_health,   \* history: the latest response of GET /health
    c_pc,         \* chat_completions: "idle" | "normalize" | "generate" | "format" | "done"
    c_request,    \* the validated ChatCompletionRequest
    c_mi,         \* index of the message the outer loop is at
    c_pi,         \* index of the item the inner loop is at
    c_content_parts,  \* content_parts of the current message
    c_qwen,       \* qwen_messages
    c_status,     \* HTTP status of the response ("none" while in progress)
    c_detail,     \* detail of the HTTPException raised, if any
    c_loaded_at_call,  \* history: model and processor were set when the request came
    c_fetches,    \* history: the fetch_image_from_url calls of this request
    c_bad_image,  \* history: index in c_fetches of the first image that failed to
                  \* fetch or decode (0: none)
    c_gen_calls,  \* history: number of model.generate calls of this request
    c_input_ids,  \* inputs.input_ids[0]
    c_generated_ids,  \* generated_ids[0], as model.generate returned it
    c_usage       \* response["usage"]

hvars == <<h_pc, h_event, h_input, h_payload, h_attempt, h_error_msg, h_result, h_raised,
           h_posts, h_sleeps, h_slept, h_hist>>
wvars == <<w_pc, w_max_wait, w_elapsed, w_result, w_polls, w_sleeps, w_slept, w_last,
           w_first_ready, w_seen_healthy, w_seen_loaded>>
svars == <<svc_pc, svc_model, svc_processor, svc_health>>
cvars == <<c_pc, c_request, c_mi, c_pi, c_content_parts, c_qwen, c_status, c_detail,
           c_loaded_at_call, c_fetches, c_bad_image, c_gen_calls, c_input_ids,
           c_generated_ids, c_usage>>
vars == <<hvars, wvars, svars, cvars>>

(***************************************************************************)
(* Configuration (src/handler.py:15-18)                                    *)
(***************************************************************************)
MAX_RETRIES == 3
RETRY_DELAY == 1

(***************************************************************************)
(* Job envelopes                                                           *)
(***************************************************************************)
NoResult == [status |-> "none"]

\* Mutant: a success envelope that also carries an error key.
SuccessWithError(result) == [status |-> "success", output |-> result, error |-> <<>>]

SuccessEnvelope(result) == [status |-> "success", output |-> result]

FailedEnvelope(error) == [error |-> error, status |-> "failed"]

(***************************************************************************)
(* Job inputs.  kind: "falsy" = a falsy non-dict value (None, "", 0),      *)
(* "int" / "str" = a truthy value of that type, "dict" = a dict with the   *)
(* listed keys.  A dict with no key at all is the empty dict {}.           *)
(***************************************************************************)
JobInput(k) == [kind |-> k, messages |-> FALSE, image_url |-> "absent",
                text |-> "absent", max_tokens |-> "absent", model |-> FALSE]

EmptyDict == JobInput("dict")

DictInputs ==
    [kind : {"dict"}, messages : BOOLEAN, image_url : {"absent", "empty", "url"},
     text : {"absent", "t"}, max_tokens : {"absent", "100"}, model : BOOLEAN]

JobInputs == DictInputs \cup {JobInput(k) : k \in {"falsy", "int", "str"}}

\* The events handed to handler: with or without an "input" key.
Events == {[has_input |-> FALSE]} \cup {[has_input |-> TRUE, input |-> i] : i \in JobInputs}

NoEvent == [has_input |-> FALSE]

\* event.get("input", {})  (src/handler.py:164)
get_input(event) == IF event.has_input THEN event.input ELSE EmptyDict

\* Python truth value of input_data, as tested by `if not input_data`.
Truthy(input_data) ==
    CASE input_data.kind = "falsy" -> FALSE
      [] input_data.kind = "dict" ->
            \/ input_data.messages
            \/ input_data.model
            \/ input_data.image_url # "absent"
            \/ input_data.text # "absent"
            \/ input_data.max_tokens # "absent"
      [] OTHER -> TRUE

\* Mutant: `if image_url is None`, which lets the empty string through.
image_url_is_none(input_data) == input_data.image_url = "absent"

\* `if not image_url` (src/handler.py:67): None and "" are both falsy.
missing_image_url(input_data) == input_data.image_url \in {"absent", "empty"}

NoPayload == [none |-> TRUE]

\* Mutant: the image part is put before the text part, with the default text and
\* the default max_tokens whatever the input says.
image_before_text(input_data) ==
    [model |-> "Hcompany/Holo1.5-7B",
     messages |-> << [role |-> "user",
                      content |-> << [type |-> "image_url",
                                      image_url |-> [url |-> input_data.image_url]],
                                     [type |-> "text", text |-> "Describe this image"] >>] >>,
     max_tokens |-> "512"]

\* The simplified shape translated to the OpenAI shape (src/handler.py:63-94).
build_payload(input_data) ==
    LET image_url  == input_data.image_url
        text       == IF input_data.text = "absent"
                        THEN "Describe this image" ELSE input_data.text
        max_tokens == IF input_data.max_tokens = "absent"
                        THEN "512" ELSE input_data.max_tokens
    IN  [model |-> "Hcompany/Holo1.5-7B",
         messages |-> << [role |-> "user",
                          content |-> << [type |-> "text", text |-> text],
                                         [type |-> "image_url",
                                          image_url |-> [url |-> image_url]] >>] >>,
         max_tokens |-> max_tokens]

\* process_request up to the retry loop (src/handler.py:57-94): the payload to
\* post, an early return, or an exception (`"messages" in 5` is a TypeError,
\* "abc".get an AttributeError).
prepare_request(input_data) ==
    CASE input_data.kind \in {"int", "falsy"} ->
            [t |-> "raise", e |-> "argument is not iterable"]
      [] input_data.kind = "str" ->
            [t |-> "raise", e |-> "'str' object has no attribute 'get'"]
      [] OTHER ->
            IF input_data.messages
            THEN [t |-> "post", payload |-> input_data]
            ELSE IF missing_image_url(input_data)
                 THEN [t |-> "return",
                       envelope |-> FailedEnvelope(<<"Missing required field: image_url">>)]
                 ELSE [t |-> "post", payload |-> build_payload(input_data)]

(***************************************************************************)
(* Downstream outcomes of one client.post: a transport exception, or a     *)
(* response with a status code, a body text, and whether the body parses   *)
(* as JSON.                                                                *)
(***************************************************************************)
PostOutcomes ==
    [kind : {"exc"}, code : {"-"}, body : {"e1", "e2"}, json : {FALSE}]
    \cup [kind : {"resp"}, code : {"200", "201", "500"}, body : {"b1", "b2"},
          json : BOOLEAN]

\* Mutant: any 2xx status is taken for a success.
status_2xx(response) == response.code \in {"200", "201"}

\* `response.status_code == 200` (src/handler.py:105)
status_ok(response) == response.code = "200"

\* response.json() of a body that parses.
parsed_json(response) == <<"json", response.body>>

\* The error_msg of a failed attempt (src/handler.py:112, 124).
attempt_error(r) ==
    CASE r.kind = "exc" -> <<"Request failed: ", r.body>>
      [] r.kind = "resp" /\ status_ok(r) -> <<"Request failed: ", "JSONDecodeError">>
      [] OTHER -> <<"API returned status ", r.code, ": ", r.body>>

\* Mutant: the delay is taken after every failed attempt, the last included.
sleep_after_every_failure(attempt) == attempt < MAX_RETRIES

\* `if attempt < MAX_RETRIES - 1` (src/handler.py:115, 127)
sleep_before_retry(attempt) == attempt < MAX_RETRIES - 1

\* Mutant: the generic message instead of the last attempt's.
exhausted_generic(error_msg) == FailedEnvelope(<<"All retry attempts failed">>)

\* The envelope once the attempts are exhausted (src/handler.py:118-121, 130-133).
exhausted_envelope(error_msg) == FailedEnvelope(error_msg)

\* Mutant: no try/except around asyncio.run.
handler_unguarded(outcome) ==
    IF outcome.t = "raise"
    THEN [raised |-> TRUE, result |-> NoResult]
    ELSE [raised |-> FALSE, result |-> outcome.envelope]

\* try/except around asyncio.run(process_request(...)) (src/handler.py:173-180).
handler_guard(outcome) ==
    IF outcome.t = "raise"
    THEN [raised |-> FALSE,
          result |-> FailedEnvelope(<<"Handler error: ", outcome.e>>)]
    ELSE [raised |-> FALSE, result |-> outcome.envelope]

\* `if not input_data` (src/handler.py:166-170)
no_input(input_data) == ~Truthy(input_data)

InitDispatch ==
    /\ h_pc = "idle"
    /\ h_event = NoEvent
    /\ h_input = EmptyDict
    /\ h_payload = NoPayload
    /\ h_attempt = 0
    /\ h_error_msg = <<>>
    /\ h_result = NoResult
    /\ h_raised = FALSE
    /\ h_posts = 0
    /\ h_sleeps = 0
    /\ h_slept = 0
    /\ h_hist = <<>>

HandlerDone(g) ==
    /\ h_pc' = "done"
    /\ h_result' = g.result
    /\ h_raised' = g.raised

\* handler(event) up to the first await of process_request (src/handler.py:141-180,
\* 57-98).
handler(event) ==
    /\ h_pc = "idle"
    /\ LET input_data == get_input(event)
           p == prepare_request(input_data)
       IN  /\ h_event' = event
           /\ h_input' = input_data
           /\ IF no_input(input_data)
              THEN /\ HandlerDone([raised |-> FALSE,
                                   result |-> FailedEnvelope(<<"No input provided">>)])
                   /\ UNCHANGED <<h_payload, h_attempt>>
              ELSE IF p.t = "post"
                   THEN /\ h_pc' = "post"
                        /\ h_payload' = p.payload
                        /\ h_attempt' = 0
                        /\ UNCHANGED <<h_result, h_raised>>
                   ELSE /\ HandlerDone(handler_guard(p))
                        /\ UNCHANGED <<h_payload, h_attempt>>
    /\ UNCHANGED <<h_error_msg, h_posts, h_sleeps, h_slept, h_hist>>
    /\ UNCHANGED <<wvars, svars, cvars>>

\* The handling of the outcome r of client.post (src/handler.py:99-133).
attempt_outcome(r) ==
    /\ h_posts' = h_posts + 1
    /\ h_hist' = Append(h_hist, r)
    /\ IF r.kind = "resp" /\ status_ok(r) /\ r.json
       THEN /\ HandlerDone(handler_guard(
                   [t |-> "return", envelope |-> SuccessEnvelope(parsed_json(r))]))
            /\ UNCHANGED h_error_msg
       ELSE /\ h_error_msg' = attempt_error(r)
            /\ IF sleep_before_retry(h_attempt)
               THEN /\ h_pc' = "sleep"
                    /\ UNCHANGED <<h_result, h_raised>>
               ELSE HandlerDone(handler_guard(
                        [t |-> "return", envelope |-> exhausted_envelope(h_error_msg')]))
    /\ UNCHANGED <<h_event, h_input, h_payload, h_attempt, h_sleeps, h_slept>>

\* One iteration of the retry loop: client.post and the handling of its outcome
\* (src/handler.py:99-133).
post_attempt(r) ==
    /\ h_pc = "post"
    /\ attempt_outcome(r)
    /\ UNCHANGED <<wvars, svars, cvars>>

\* asyncio.sleep(RETRY_DELAY), then the next iteration of range(MAX_RETRIES), or
\* the return after the loop (src/handler.py:116, 128, 98, 135-138).
retry_sleep ==
    /\ h_pc = "sleep"
    /\ h_sleeps' = h_sleeps + 1
    /\ h_slept' = h_slept + RETRY_DELAY
    /\ h_attempt' = h_attempt + 1
    /\ IF h_attempt' < MAX_RETRIES
       THEN /\ h_pc' = "post"
            /\ UNCHANGED <<h_result, h_raised>>
       ELSE HandlerDone(handler_guard(
                [t |-> "return",
                 envelope |-> FailedEnvelope(<<"All retry attempts failed">>)]))
    /\ UNCHANGED <<h_event, h_input, h_payload, h_error_msg, h_posts, h_hist>>
    /\ UNCHANGED <<wvars, svars, cvars>>

\* The invocation is over; the worker takes the next job (nothing of an
\* invocation outlives it).
next_job ==
    /\ h_pc = "done"
    /\ h_pc' = "idle"
    /\ h_event' = NoEvent
    /\ h_input' = EmptyDict
    /\ h_payload' = NoPayload
    /\ h_attempt' = 0
    /\ h_error_msg' = <<>>
    /\ h_result' = NoResult
    /\ h_raised' = FALSE
    /\ h_posts' = 0
    /\ h_sleeps' = 0
    /\ h_slept' = 0
    /\ h_hist' = <<>>
    /\ UNCHANGED <<wvars, svars, cvars>>

(***************************************************************************)
(* wait_for_service (src/handler.py:21-36).  Time is counted in seconds.   *)
(***************************************************************************)
\* await asyncio.sleep(2) (src/handler.py:35)
POLL_INTERVAL == 2
\* max_wait: int = 60 (src/handler.py:21)
DEFAULT_MAX_WAIT == 60

\* Largest max_wait argument tried besides the default.
MaxWaitArg == 6
\* Longest time one GET /health takes, in seconds.
MaxPollTime == 1

MaxWaitArgs == (0..MaxWaitArg) \cup {DEFAULT_MAX_WAIT}

\* Outcomes of one client.get(f"{url}/health"): a transport exception, or a
\* response with a status code and a body that parses to a dict or does not.
HealthOutcomes ==
    [kind : {"exc"}, code : {"-"}, json : {FALSE}, status : {"-"}, model_loaded : {"-"}]
    \cup [kind : {"resp"}, code : {"200", "503"}, json : {FALSE}, status : {"-"},
          model_loaded : {"-"}]
    \cup [kind : {"resp"}, code : {"200", "503"}, json : {TRUE},
          status : {"healthy", "starting"}, model_loaded : {"true", "false", "absent"}]

NoPoll == [kind |-> "none", code |-> "-", json |-> FALSE, status |-> "-",
           model_loaded |-> "-"]

\* Mutant: either flag is enough.
either_flag(data) == data.status = "healthy" \/ data.model_loaded = "true"

\* data.get("status") == "healthy" and data.get("model_loaded")  (src/handler.py:30)
both_flags(data) == data.status = "healthy" /\ data.model_loaded = "true"

\* Mutant: the loaded flag is read under a key the body never has.
poll_ready_wrong_key(r) ==
    /\ r.kind = "resp"
    /\ r.code = "200"
    /\ r.json
    /\ r.status = "healthy"
    /\ r.model_loaded = "loaded"

\* Whether a poll ends the wait (src/handler.py:26-34): an exception of
\* client.get or response.json() is caught and the loop goes on.
poll_ready(r) ==
    /\ r.kind = "resp"
    /\ r.code = "200"
    /\ r.json
    /\ both_flags(r)

\* Mutant: the loop runs while elapsed <= max_wait.
wait_not_over_inclusive(elapsed, max_wait) == elapsed <= max_wait

\* `while time.time() - start_time < max_wait` (src/handler.py:25)
wait_not_over(elapsed, max_wait) == elapsed < max_wait

InitWait ==
    /\ w_pc = "idle"
    /\ w_max_wait = 0
    /\ w_elapsed = 0
    /\ w_result = "none"
    /\ w_polls = 0
    /\ w_sleeps = 0
    /\ w_slept = 0
    /\ w_last = NoPoll
    /\ w_first_ready = 0
    /\ w_seen_healthy = FALSE
    /\ w_seen_loaded = FALSE

\* wait_for_service(url, max_wait) up to the first poll (src/handler.py:21-25).
wait_for_service(max_wait) ==
    /\ w_pc = "idle"
    /\ w_max_wait' = max_wait
    /\ w_elapsed' = 0
    /\ IF wait_not_over(0, max_wait)
       THEN w_pc' = "poll" /\ UNCHANGED w_result
       ELSE w_pc' = "done" /\ w_result' = "not_ready"
    /\ UNCHANGED <<w_polls, w_sleeps, w_slept, w_last, w_first_ready, w_seen_healthy,
                   w_seen_loaded>>
    /\ UNCHANGED <<hvars, svars, cvars>>

\* One GET /health taking d seconds, and the test of its outcome
\* (src/handler.py:26-34).
health_poll(r, d) ==
    /\ w_pc = "poll"
    /\ w_polls' = w_polls + 1
    /\ w_elapsed' = w_elapsed + d
    /\ w_last' = r
    /\ w_first_ready' =
          IF w_first_ready = 0 /\ r.kind = "resp" /\ r.code = "200" /\ r.json
             /\ r.status = "healthy" /\ r.model_loaded = "true"
          THEN w_polls' ELSE w_first_ready
    /\ w_seen_healthy' =
          (w_seen_healthy \/ (r.json /\ r.status = "healthy" /\ r.model_loaded # "true"))
    /\ w_seen_loaded' =
          (w_seen_loaded \/ (r.json /\ r.status # "healthy" /\ r.model_loaded = "true"))
    /\ IF poll_ready(r)
       THEN w_pc' = "done" /\ w_result' = "ready"
       ELSE w_pc' = "sleep" /\ UNCHANGED w_result
    /\ UNCHANGED <<w_max_wait, w_sleeps, w_slept>>
    /\ UNCHANGED <<hvars, svars, cvars>>

\* asyncio.sleep(2), then the loop condition again (src/handler.py:35, 25, 36).
poll_sleep ==
    /\ w_pc = "sleep"
    /\ w_sleeps' = w_sleeps + 1
    /\ w_slept' = w_slept + POLL_INTERVAL
    /\ w_elapsed' = w_elapsed + POLL_INTERVAL
    /\ IF wait_not_over(w_elapsed', w_max_wait)
       THEN w_pc' = "poll" /\ UNCHANGED w_result
       ELSE w_pc' = "done" /\ w_result' = "not_ready"
    /\ UNCHANGED <<w_max_wait, w_polls, w_last, w_first_ready, w_seen_healthy,
                   w_seen_loaded>>
    /\ UNCHANGED <<hvars, svars, cvars>>

\* The call has returned; the next call starts afresh.
wait_returned ==
    /\ w_pc = "done"
    /\ w_pc' = "idle"
    /\ w_max_wait' = 0
    /\ w_elapsed' = 0
    /\ w_result' = "none"
    /\ w_polls' = 0
    /\ w_sleeps' = 0
    /\ w_slept' = 0
    /\ w_last' = NoPoll
    /\ w_first_ready' = 0
    /\ w_seen_healthy' = FALSE
    /\ w_seen_loaded' = FALSE
    /\ UNCHANGED <<hvars, svars, cvars>>

(***************************************************************************)
(* The serving process (src/app/main.py).                                  *)
(*                                                                         *)
(* A request is the validated ChatCompletionRequest.  A message has a role *)
(* and a content that is a string (is_str) or a list of items; an item, as *)
(* the dict the loop reads, has a type, a text and the url of its          *)
(* image_url ("" when there is none).                                      *)
(***************************************************************************)

\* Bound on the size of a request: its messages plus their content items.
MaxSize == 3

Roles == {"user", "system", "tool"}

\* References to an image: a data:image URL, a data: URL of another media type,
\* a remote URL.
Urls == {"data:image/png;base64,AAAA", "data:text/plain;base64,AAAA",
         "https://host/img.png"}

Items ==
    [type : {"text"}, text : {"a", "b"}, url : {""}]
    \cup [type : {"video"}, text : {""}, url : {""}]
    \cup [type : {"image_url"}, text : {""}, url : Urls \cup {""}]

\* The messages of a given size: 1 for the message, 1 for each item; a string
\* content counts as one item.
MessagesOfSize(n) ==
    {[role |-> r, is_str |-> FALSE, text |-> "", items |-> items] :
        r \in Roles, items \in [1..(n - 1) -> Items]}
    \cup (IF n = 2
          THEN {[role |-> r, is_str |-> TRUE, text |-> "s", items |-> <<>>] : r \in Roles}
          ELSE {})

RECURSIVE MessageLists(_)
MessageLists(n) ==
    IF n = 0
    THEN {<<>>}
    ELSE UNION {{<<m>> \o rest : m \in MessagesOfSize(k), rest \in MessageLists(n - k)} :
                k \in 1..n}

Requests == UNION {[stream : BOOLEAN, messages : MessageLists(n)] : n \in 0..MaxSize}

NoRequest == [stream |-> FALSE, messages |-> <<>>]

\* What fetch_image_from_url can come to: an exception inside its try block
\* (network failure, raise_for_status, b64decode or Image.open rejecting the
\* bytes), or an Image of some mode.  Image.open reads the header only: the
\* pixel data are decoded when first needed, and `intact` says whether that
\* decoding will succeed.
FetchOutcomes ==
    [ok : {FALSE}, mode : {"-"}, intact : {FALSE}]
    \cup [ok : {TRUE}, mode : {"RGB", "RGBA", "LA"}, intact : BOOLEAN]

\* Mutant: url.startswith("data:").
is_data_scheme(url) == url \in {"data:image/png;base64,AAAA", "data:text/plain;base64,AAAA"}

\* url.startswith("data:image")  (src/app/main.py:122)
is_data_url(url) == url = "data:image/png;base64,AAAA"

\* Mutant: every image is passed on in the mode it was opened in.
mode_kept(image) == image

\* `if pil_image.mode == 'RGBA': pil_image = pil_image.convert('RGB')`
\* (src/app/main.py:207-208)
rgba_to_rgb(image) ==
    IF image.mode = "RGBA" THEN [image EXCEPT !.mode = "RGB"] ELSE image

\* Mutant: a message of any role is kept.
any_role(role) == TRUE

\* `message.role not in ["user", "assistant", "system"]` (src/app/main.py:179)
role_supported(role) == role \in {"user", "assistant", "system"}

TextPart(text) == [type |-> "text", text |-> text, mode |-> "-", intact |-> TRUE]

ImagePart(image) == [type |-> "image", text |-> "", mode |-> image.mode,
                     intact |-> image.intact]

\* Mutant: an empty qwen_messages is passed on.
never_empty(qwen_messages) == FALSE

\* `if not qwen_messages` (src/app/main.py:218)
no_valid_messages(qwen_messages) == qwen_messages = <<>>

\* Mutant: the exception of the prediction is swallowed and answered 200.
prediction_error_as_ok(e) == [status |-> "200", detail |-> <<"Prediction error: ", e>>]

\* Mutant: chat_completions does not look at model and processor.
load_not_checked == FALSE

\* `if model is None or processor is None` (src/app/main.py:168)
model_not_loaded == ~svc_model \/ ~svc_processor

\* Mutant: requests are handled while load_model is between its statements, and
\* after it has raised.
serving_while_loading(pc) == TRUE

\* The positions of load_model at which the event loop runs a request handler.
\* load_model is the startup coroutine of the app that uvicorn.run serves
\* (src/app/main.py:54-55, 289-291) and holds no await: no handler runs between
\* its first statement and its return, and when it raises the startup fails and
\* nothing is served.  "boot" is the app served without its startup event having
\* run, the case the 503 of chat_completions is there for.
serving(pc) == pc \in {"boot", "up"}

NoHealth == [status |-> "none", model_loaded |-> FALSE, processor_loaded |-> FALSE]

\* The response of GET /health (src/app/main.py:91-99): status is the literal
\* "healthy", model_loaded is `model is not None`.
health ==
    [status |-> "healthy", model_loaded |-> svc_model, processor_loaded |-> svc_processor]

\* Mutant: the stream flag is not looked at.
stream_ignored(request) == FALSE

\* `if request.stream` (src/app/main.py:171)
stream_requested(request) == request.stream

\* `except HTTPException: raise` for the HTTPException(400) raised by
\* fetch_image_from_url (src/app/main.py:133-134, 283-284).
fetch_failure_response(e) == [status |-> "400", detail |-> <<"Failed to fetch image: ", e>>]

\* `except Exception as e` (src/app/main.py:285-286)
prediction_error(e) == [status |-> "500", detail |-> <<"Prediction error: ", e>>]

\* Bounds on the token sequences: the prompt has 1..MaxPromptTokens tokens,
\* model.generate adds 0..MaxNewTokens tokens to it.
MaxPromptTokens == 2
MaxNewTokens == 2

\* n tokens of one kind.
Tokens(n, kind) == [i \in 1..n |-> kind]

\* Mutant: the generated ids are counted with the prompt they start with.
prompt_kept(in_ids, out_ids) == out_ids

\* `out_ids[len(in_ids):]` (src/app/main.py:246-249)
trim_prompt(in_ids, out_ids) == SubSeq(out_ids, Len(in_ids) + 1, Len(out_ids))

\* response["usage"] (src/app/main.py:274-278)
usage(input_ids, generated_ids_trimmed) ==
    [prompt_tokens |-> Len(input_ids),
     completion_tokens |-> Len(generated_ids_trimmed),
     total_tokens |-> Len(input_ids) + Len(generated_ids_trimmed)]

NoUsage == [none |-> TRUE]

InitChat ==
    /\ svc_pc = "boot"
    /\ svc_model = FALSE
    /\ svc_processor = FALSE
    /\ svc_health = NoHealth
    /\ c_pc = "idle"
    /\ c_request = NoRequest
    /\ c_mi = 0
    /\ c_pi = 0
    /\ c_content_parts = <<>>
    /\ c_qwen = <<>>
    /\ c_status = "none"
    /\ c_detail = <<>>
    /\ c_loaded_at_call = FALSE
    /\ c_fetches = <<>>
    /\ c_bad_image = 0
    /\ c_gen_calls = 0
    /\ c_input_ids = <<>>
    /\ c_generated_ids = <<>>
    /\ c_usage = NoUsage

\* load_model: model = ...from_pretrained(...) (src/app/main.py:66-73).  The
\* startup event runs before any request is handled.
load_model_weights ==
    /\ svc_pc = "boot"
    /\ c_pc = "idle"
    /\ svc_health = NoHealth
    /\ svc_pc' = "weights"
    /\ svc_model' = TRUE
    /\ UNCHANGED <<svc_processor, svc_health, cvars, hvars, wvars>>

\* load_model: processor = AutoProcessor.from_pretrained(...) (src/app/main.py:75)
load_processor ==
    /\ svc_pc = "weights"
    /\ svc_pc' = "up"
    /\ svc_processor' = TRUE
    /\ UNCHANGED <<svc_model, svc_health, cvars, hvars, wvars>>

\* load_model: AutoProcessor.from_pretrained raises after the model was set
\* (src/app/main.py:75); the startup fails with model set and processor None.
load_processor_raises ==
    /\ svc_pc = "weights"
    /\ svc_pc' = "failed"
    /\ UNCHANGED <<svc_model, svc_processor, svc_health, cvars, hvars, wvars>>

\* GET /health is answered (src/app/main.py:91-99).
health_request ==
    /\ serving(svc_pc)
    /\ svc_health' = health
    /\ UNCHANGED <<svc_pc, svc_model, svc_processor, cvars, hvars, wvars>>

ChatDone(response) ==
    /\ c_pc' = "done"
    /\ c_status' = response.status
    /\ c_detail' = response.detail

\* chat_completions up to the message loop (src/app/main.py:159-176).
chat_completions(request) ==
    /\ c_pc = "idle"
    /\ serving(svc_pc)
    /\ c_request' = request
    /\ c_loaded_at_call' = (svc_model /\ svc_processor)
    /\ IF model_not_loaded
       THEN /\ ChatDone([status |-> "503", detail |-> <<"Model not loaded">>])
            /\ UNCHANGED <<c_mi, c_pi>>
       ELSE IF stream_requested(request)
            THEN /\ ChatDone([status |-> "400", detail |-> <<"Streaming not supported yet">>])
                 /\ UNCHANGED <<c_mi, c_pi>>
            ELSE /\ c_pc' = "normalize"
                 /\ c_mi' = 1
                 /\ c_pi' = 1
                 /\ UNCHANGED <<c_status, c_detail>>
    /\ UNCHANGED <<c_content_parts, c_qwen, c_fetches, c_bad_image, c_gen_calls,
                   c_input_ids, c_generated_ids, c_usage>>
    /\ UNCHANGED <<svars, hvars, wvars>>

\* A request arrives at POST /v1/chat/completions (src/app/main.py:158-159).
chat_request == c_pc = "idle" /\ \E request \in Requests : chat_completions(request)

\* Mutant: `if url` never holds, no image is resolved.
url_never_set == FALSE

\* The item the loops are at is an image_url item with a non-empty url
\* (src/app/main.py:195-203).
at_image ==
    /\ c_pc = "normalize"
    /\ c_mi <= Len(c_request.messages)
    /\ role_supported(c_request.messages[c_mi].role)
    /\ ~c_request.messages[c_mi].is_str
    /\ c_pi <= Len(c_request.messages[c_mi].items)
    /\ c_request.messages[c_mi].items[c_pi].type = "image_url"
    /\ c_request.messages[c_mi].items[c_pi].url # ""

\* One step of the loops that awaits nothing (src/app/main.py:178-219): a message
\* of an unsupported role, a string content, a text item, an ignored item, the end
\* of a message, the end of the messages.
normalize_step ==
    /\ c_pc = "normalize"
    /\ ~at_image
    /\ IF c_mi > Len(c_request.messages)
       THEN \* after the loop
            /\ IF no_valid_messages(c_qwen)
               THEN ChatDone([status |-> "400", detail |-> <<"No valid messages provided">>])
               ELSE c_pc' = "generate" /\ UNCHANGED <<c_status, c_detail>>
            /\ UNCHANGED <<c_mi, c_pi, c_content_parts, c_qwen>>
       ELSE LET message == c_request.messages[c_mi] IN
            /\ UNCHANGED <<c_pc, c_status, c_detail>>
            /\ IF ~role_supported(message.role)
               THEN \* continue
                    /\ c_mi' = c_mi + 1
                    /\ UNCHANGED <<c_pi, c_content_parts, c_qwen>>
               ELSE IF message.is_str
               THEN /\ c_qwen' = Append(c_qwen, [role |-> message.role,
                                                 content |-> <<TextPart(message.text)>>])
                    /\ c_mi' = c_mi + 1
                    /\ UNCHANGED <<c_pi, c_content_parts>>
               ELSE IF c_pi > Len(message.items)
               THEN \* `if content_parts`
                    /\ c_qwen' = IF c_content_parts # <<>>
                                 THEN Append(c_qwen, [role |-> message.role,
                                                      content |-> c_content_parts])
                                 ELSE c_qwen
                    /\ c_mi' = c_mi + 1
                    /\ c_pi' = 1
                    /\ c_content_parts' = <<>>
               ELSE LET item == message.items[c_pi] IN
                    /\ c_content_parts' = IF item.type = "text"
                                          THEN Append(c_content_parts, TextPart(item.text))
                                          ELSE c_content_parts
                    /\ c_pi' = c_pi + 1
                    /\ UNCHANGED <<c_mi, c_qwen>>
    /\ UNCHANGED <<c_request, c_loaded_at_call, c_fetches, c_bad_image, c_gen_calls,
                   c_input_ids, c_generated_ids, c_usage>>
    /\ UNCHANGED <<svars, hvars, wvars>>

\* `pil_image = await fetch_image_from_url(url)` and the RGBA conversion
\* (src/app/main.py:204-210, 118-134, 283-286).
fetch_image(outcome) ==
    /\ at_image
    /\ LET url == c_request.messages[c_mi].items[c_pi].url
           undecodable == ~outcome.ok \/ ~outcome.intact
       IN  /\ c_fetches' = Append(c_fetches,
                                  [mi |-> c_mi, pi |-> c_pi, url |-> url,
                                   network |-> ~is_data_url(url), ok |-> outcome.ok,
                                   mode |-> outcome.mode, intact |-> outcome.intact])
           /\ c_bad_image' = IF c_bad_image = 0 /\ undecodable
                             THEN Len(c_fetches') ELSE c_bad_image
           /\ IF ~outcome.ok
              THEN /\ ChatDone(fetch_failure_response("fetch"))
                   /\ UNCHANGED <<c_pi, c_content_parts>>
              ELSE IF outcome.mode = "RGBA" /\ ~outcome.intact
              THEN \* convert('RGB') has to decode the pixels, and raises
                   /\ ChatDone(prediction_error("decode"))
                   /\ UNCHANGED <<c_pi, c_content_parts>>
              ELSE /\ c_content_parts' =
                         Append(c_content_parts, ImagePart(rgba_to_rgb(outcome)))
                   /\ c_pi' = c_pi + 1
                   /\ UNCHANGED <<c_pc, c_status, c_detail>>
    /\ UNCHANGED <<c_request, c_mi, c_qwen, c_loaded_at_call, c_gen_calls,
                   c_input_ids, c_generated_ids, c_usage>>
    /\ UNCHANGED <<svars, hvars, wvars>>

\* Some image of qwen_messages cannot be decoded.
has_undecodable_image(qwen_messages) ==
    \E i \in 1..Len(qwen_messages) :
        \E j \in 1..Len(qwen_messages[i].content) :
            /\ qwen_messages[i].content[j].type = "image"
            /\ ~qwen_messages[i].content[j].intact

\* The processor calls and model.generate (src/app/main.py:221-243, 285-286).
\* outcome: "prepare_raises" (apply_chat_template, process_vision_info or the
\* processor raise: they always do on an image that cannot be decoded),
\* "generate_raises", or "ok": the prompt has p tokens and model.generate returns
\* them followed by n new ones.
generate(outcome, p, n) ==
    /\ c_pc = "generate"
    /\ has_undecodable_image(c_qwen) => outcome = "prepare_raises"
    /\ c_gen_calls' = IF outcome = "prepare_raises" THEN c_gen_calls ELSE c_gen_calls + 1
    /\ IF outcome = "ok"
       THEN /\ c_pc' = "format"
            /\ c_input_ids' = Tokens(p, "prompt")
            /\ c_generated_ids' = Tokens(p, "prompt") \o Tokens(n, "new")
            /\ UNCHANGED <<c_status, c_detail>>
       ELSE /\ ChatDone(prediction_error(outcome))
            /\ UNCHANGED <<c_input_ids, c_generated_ids>>
    /\ UNCHANGED <<c_request, c_mi, c_pi, c_content_parts, c_qwen, c_loaded_at_call,
                   c_fetches, c_bad_image, c_usage>>
    /\ UNCHANGED <<svars, hvars, wvars>>

\* The generated ids are trimmed and decoded, the response is built and returned
\* (src/app/main.py:245-281).
format_response ==
    /\ c_pc = "format"
    /\ c_usage' = usage(c_input_ids, trim_prompt(c_input_ids, c_generated_ids))
    /\ ChatDone([status |-> "200", detail |-> <<>>])
    /\ UNCHANGED <<c_request, c_mi, c_pi, c_content_parts, c_qwen, c_loaded_at_call,
                   c_fetches, c_bad_image, c_gen_calls, c_input_ids, c_generated_ids>>
    /\ UNCHANGED <<svars, hvars, wvars>>

\* Nothing of a request outlives it.
chat_reset ==
    /\ c_pc' = "idle"
    /\ c_request' = NoRequest
    /\ c_mi' = 0
    /\ c_pi' = 0
    /\ c_content_parts' = <<>>
    /\ c_qwen' = <<>>
    /\ c_status' = "none"
    /\ c_detail' = <<>>
    /\ c_loaded_at_call' = FALSE
    /\ c_fetches' = <<>>
    /\ c_bad_image' = 0
    /\ c_gen_calls' = 0
    /\ c_input_ids' = <<>>
    /\ c_generated_ids' = <<>>
    /\ c_usage' = NoUsage

\* The response is sent.
chat_responded ==
    /\ c_pc = "done"
    /\ chat_reset
    /\ UNCHANGED <<svars, hvars, wvars>>

(***************************************************************************)
(* The orchestrator's POST served by chat_completions.  The handler stays  *)
(* in `await client.post` (h_pc = "post") while the serving process works  *)
(* on the request.  Nothing in handler or process_request calls            *)
(* wait_for_service, so no step of a job runs it.                          *)
(***************************************************************************)

\* The payload is the job input itself (it carried `messages`), not one that
\* process_request built.
is_direct(payload) == "kind" \in DOMAIN payload

\* ChatCompletionRequest requires `model` and `messages` (src/app/main.py:46-51);
\* FastAPI answers 422 to a body without them.
payload_valid(payload) == is_direct(payload) => payload.model

\* The ChatCompletionRequest made of the posted payload: that of a built payload
\* has the one user message with its text item and its image_url item, and the
\* default stream = False; the messages of a direct payload are taken to be one
\* user message with a string content.
payload_request(payload) ==
    IF is_direct(payload)
    THEN [stream |-> FALSE,
          messages |-> <<[role |-> "user", is_str |-> TRUE, text |-> "s", items |-> <<>>]>>]
    ELSE [stream |-> FALSE,
          messages |->
            <<[role |-> payload.messages[1].role, is_str |-> FALSE, text |-> "",
               items |-> <<[type |-> "text",
                            text |-> payload.messages[1].content[1].text, url |-> ""],
                           [type |-> "image_url", text |-> "",
                            url |-> payload.messages[1].content[2].image_url.url]>>]>>]

\* What client.post returns once chat_completions is over: the status, the body
\* (JSON in every case), and as history whether model.generate was called for
\* this attempt and whether the attempt ended on its failure.
served_outcome ==
    [kind |-> "resp", code |-> c_status,
     body |-> IF c_status = "200" THEN <<"chat.completion">> ELSE c_detail,
     json |-> TRUE,
     gen |-> c_gen_calls,
     gen_failed |-> (c_gen_calls >= 1 /\ c_usage = NoUsage)]

\* The POST reaches /v1/chat/completions (src/handler.py:100-103,
\* src/app/main.py:158-176).
post_received ==
    /\ h_pc = "post"
    /\ payload_valid(h_payload)
    /\ chat_completions(payload_request(h_payload))

\* The POST is answered 422 before chat_completions is entered.
post_invalid ==
    /\ c_pc = "idle"
    /\ serving(svc_pc)
    /\ ~payload_valid(h_payload)
    /\ post_attempt([kind |-> "resp", code |-> "422", body |-> "b1", json |-> TRUE])

\* The POST raises: the serving process cannot be reached (src/handler.py:123-124).
post_unreachable(r) ==
    /\ c_pc = "idle"
    /\ r.kind = "exc"
    /\ post_attempt(r)

\* The response of chat_completions comes back to the retry loop
\* (src/handler.py:105-121, src/app/main.py:281-286).
post_answered ==
    /\ h_pc = "post"
    /\ c_pc = "done"
    /\ attempt_outcome(served_outcome)
    /\ chat_reset
    /\ UNCHANGED <<wvars, svars>>

Init == InitDispatch /\ InitWait /\ InitChat

NextDispatch ==
    \/ \E event \in Events : handler(event)
    \/ \E r \in PostOutcomes : post_attempt(r)
    \/ retry_sleep
    \/ next_job

SpecDispatch == Init /\ [][NextDispatch]_vars

NextWait ==
    \/ \E max_wait \in MaxWaitArgs : wait_for_service(max_wait)
    \/ \E r \in HealthOutcomes, d \in 0..MaxPollTime : health_poll(r, d)
    \/ poll_sleep
    \/ wait_returned

SpecWait == Init /\ [][NextWait]_vars

NextChat ==
    \/ load_model_weights
    \/ load_processor
    \/ load_processor_raises
    \/ health_request
    \/ chat_request
    \/ normalize_step
    \/ \E outcome \in FetchOutcomes : fetch_image(outcome)
    \/ \E outcome \in {"prepare_raises", "generate_raises", "ok"},
          p \in 1..MaxPromptTokens, n \in 0..MaxNewTokens : generate(outcome, p, n)
    \/ format_response
    \/ chat_responded

SpecChat == Init /\ [][NextChat]_vars

NextJob ==
    \/ load_model_weights
    \/ load_processor
    \/ load_processor_raises
    \/ \E event \in Events : handler(event)
    \/ post_received
    \/ post_invalid
    \/ \E r \in PostOutcomes : post_unreachable(r)
    \/ normalize_step
    \/ \E outcome \in FetchOutcomes : fetch_image(outcome)
    \/ \E outcome \in {"prepare_raises", "generate_raises", "ok"},
          p \in 1..MaxPromptTokens, n \in 0..MaxNewTokens : generate(outcome, p, n)
    \/ format_response
    \/ post_answered
    \/ retry_sleep
    \/ next_job

SpecJob == Init /\ [][NextJob]_vars

\* A GET /health always ends (the client has a 5 s timeout) and so does a sleep.
SpecWaitLive ==
    /\ SpecWait
    /\ WF_vars(\E r \in HealthOutcomes, d \in 0..MaxPollTime : health_poll(r, d))
    /\ WF_vars(poll_sleep)

(***************************************************************************)
(* Claims about handler / process_request, checked under SpecDispatch.     *)
(***************************************************************************)

\* An attempt that the orchestrator counts as successful: status 200 and a body
\* that parses.
AttemptSucceeded(r) == r.kind = "resp" /\ r.code = "200" /\ r.json

FailedTwiceThenSucceeded ==
    /\ h_pc = "done"
    /\ Len(h_hist) = 3
    /\ ~AttemptSucceeded(h_hist[1])
    /\ ~AttemptSucceeded(h_hist[2])
    /\ AttemptSucceeded(h_hist[3])

\* C1: at most 3 POST attempts per job; no attempt follows a successful one; one
\* 1-second sleep between consecutive attempts and none after the last, so that a
\* finished job has slept (attempts - 1) times; failing twice then succeeding
\* gives a success envelope after exactly 3 attempts and 2 delays.
C1_BoundedRetry ==
    /\ h_posts <= 3
    /\ Len(h_hist) = h_posts
    /\ \A i \in 1..(Len(h_hist) - 1) : ~AttemptSucceeded(h_hist[i])
    /\ h_slept = h_sleeps * 1
    /\ h_pc = "post" => h_sleeps = h_posts
    /\ h_pc = "sleep" => h_sleeps = h_posts - 1
    /\ (h_pc = "done" /\ h_posts > 0) => h_sleeps = h_posts - 1
    /\ (h_pc = "done" /\ h_posts = 0) => h_sleeps = 0
    /\ FailedTwiceThenSucceeded =>
          /\ h_result.status = "success"
          /\ h_posts = 3
          /\ h_sleeps = 2
          /\ h_slept = 2

C1_Witness ==
    /\ FailedTwiceThenSucceeded
    /\ h_result.status = "success"
    /\ h_sleeps = 2

AllAttemptsFailed ==
    /\ h_pc = "done"
    /\ Len(h_hist) = 3
    /\ \A i \in 1..3 : ~AttemptSucceeded(h_hist[i])

\* C2: when all 3 attempts fail, the envelope is {status: failed, error: m} with m
\* the message of the third attempt, not an earlier one's and not the generic
\* "All retry attempts failed".
C2_LastFailureReported ==
    AllAttemptsFailed =>
        /\ h_result = [status |-> "failed", error |-> attempt_error(h_hist[3])]
        /\ h_result.error # <<"All retry attempts failed">>

C2_Witness ==
    /\ AllAttemptsFailed
    /\ h_hist[1].kind = "exc"
    /\ h_hist[2].kind = "resp"
    /\ attempt_error(h_hist[1]) # attempt_error(h_hist[3])
    /\ attempt_error(h_hist[2]) # attempt_error(h_hist[3])
    /\ h_result.error = attempt_error(h_hist[3])

\* C3: handler never lets an exception reach its caller; whatever the event, a
\* finished invocation has returned a success or a failed envelope.
C3_NeverRaises ==
    /\ ~h_raised
    /\ h_pc = "done" => h_result.status \in {"success", "failed"}

C3_Witness ==
    /\ h_pc = "done"
    /\ h_input.kind \in {"int", "str"}
    /\ ~h_raised
    /\ h_result.status = "failed"
    /\ Head(h_result.error) = "Handler error: "

\* A finished invocation whose input has the simplified shape (a dict without
\* `messages`) and no usable image_url.
SimplifiedWithoutImage ==
    /\ h_pc = "done"
    /\ h_input.kind = "dict"
    /\ ~h_input.messages
    /\ h_input.image_url \in {"absent", "empty"}

MissingImageEnvelope ==
    [status |-> "failed", error |-> <<"Missing required field: image_url">>]

\* C4, as claimed: every simplified-shape input lacking image_url returns exactly
\* the missing-field envelope, and nothing is posted.
C4_Original ==
    (SimplifiedWithoutImage /\ h_event.has_input) =>
        /\ h_result = MissingImageEnvelope
        /\ h_posts = 0

\* C4, amended: a non-empty simplified-shape input lacking image_url returns
\* exactly the missing-field envelope; the empty input {} returns "No input
\* provided"; in both cases nothing is posted.
C4_MissingImageUrl ==
    SimplifiedWithoutImage =>
        /\ h_posts = 0
        /\ h_payload = NoPayload
        /\ h_input # EmptyDict => h_result = MissingImageEnvelope
        /\ h_input = EmptyDict =>
              h_result = [status |-> "failed", error |-> <<"No input provided">>]

C4_Witness ==
    /\ SimplifiedWithoutImage
    /\ h_input.text = "t"
    /\ h_input.image_url = "empty"
    /\ h_result = MissingImageEnvelope
    /\ h_posts = 0

\* C5: a returned envelope has status success or failed; success iff it has an
\* `output` and no `error`; failed iff it has an `error` and no `output`.
C5_EnvelopeShape ==
    h_pc = "done" =>
        /\ h_result.status \in {"success", "failed"}
        /\ h_result.status = "success" <=>
              ("output" \in DOMAIN h_result /\ "error" \notin DOMAIN h_result)
        /\ h_result.status = "failed" <=>
              ("error" \in DOMAIN h_result /\ "output" \notin DOMAIN h_result)

C5_Witness ==
    /\ h_pc = "done"
    /\ h_posts = 2
    /\ h_result.status = "success"
    /\ DOMAIN h_result = {"status", "output"}

(***************************************************************************)
(* Claims about wait_for_service, checked under SpecWait / SpecWaitLive.   *)
(***************************************************************************)

\* C6: when the first poll answered 200 + healthy + model loaded is the third,
\* wait_for_service returns ready on that poll, after 3 polls and the 2 sleeps
\* between them; ready is never returned on a poll before the first such poll.
C6_ReadyOnThirdPoll ==
    /\ w_first_ready = 3 =>
          /\ w_pc = "done"
          /\ w_result = "ready"
          /\ w_polls = 3
          /\ w_sleeps = 2
          /\ w_slept = 2 * POLL_INTERVAL
    /\ w_result = "ready" => w_first_ready = w_polls

C6_Witness ==
    /\ w_first_ready = 3
    /\ w_polls = 3
    /\ w_result = "ready"
    /\ w_elapsed < w_max_wait

\* C7: ready is returned only on a poll whose single response had status 200,
\* status "healthy" and a true model_loaded; healthy in one poll and model
\* loaded in another never add up to ready, nor does an exception or a non-200.
C7_ReadyNeedsBothFlags ==
    /\ w_result = "ready" =>
          /\ w_last.kind = "resp"
          /\ w_last.code = "200"
          /\ w_last.status = "healthy"
          /\ w_last.model_loaded = "true"
    /\ w_first_ready = 0 => w_result # "ready"

C7_Witness ==
    /\ w_pc = "done"
    /\ w_seen_healthy
    /\ w_seen_loaded
    /\ w_first_ready = 0
    /\ w_last.code = "503"
    /\ w_last.status = "healthy"
    /\ w_last.model_loaded = "true"
    /\ w_result = "not_ready"

C8_Safety ==
    /\ w_pc = "poll" => w_elapsed < w_max_wait
    /\ w_pc = "poll" => w_sleeps = w_polls
    /\ w_pc = "sleep" => w_sleeps = w_polls - 1
    /\ w_slept = 2 * w_sleeps
    /\ (w_pc = "done" /\ w_first_ready = 0) =>
          /\ w_result = "not_ready"
          /\ w_elapsed >= w_max_wait
          /\ w_sleeps = w_polls

\* C8: a call terminates; against an endpoint that never reports ready it
\* returns not-ready with the maximum wait elapsed, having slept 2 seconds after
\* every poll; no poll starts once the elapsed time has reached max_wait.
C8_TimesOut ==
    /\ []C8_Safety
    /\ (w_pc \in {"poll", "sleep"}) ~> (w_pc = "done")

C8_Witness ==
    /\ w_pc = "done"
    /\ w_max_wait = DEFAULT_MAX_WAIT
    /\ w_first_ready = 0
    /\ w_result = "not_ready"
    /\ w_polls >= 3
    /\ w_last.kind = "exc"

(***************************************************************************)
(* Claims about chat_completions, checked under SpecChat.                  *)
(***************************************************************************)

\* A message that gives at least one content part: a supported role with a string
\* content, a text item, or an image_url item that names a url.
YieldsParts(m) ==
    /\ m.role \in {"system", "user", "assistant"}
    /\ \/ m.is_str
       \/ \E j \in 1..Len(m.items) :
             \/ m.items[j].type = "text"
             \/ m.items[j].type = "image_url" /\ m.items[j].url # ""

NormalizesToNothing(messages) == \A i \in 1..Len(messages) : ~YieldsParts(messages[i])

\* C9, as claimed: every request whose messages normalize to zero content parts
\* is answered 400 and generation is never invoked.
C9_Original ==
    (c_pc = "done" /\ NormalizesToNothing(c_request.messages)) =>
        /\ c_status = "400"
        /\ c_gen_calls = 0

\* C9, amended: for a request whose messages normalize to zero content parts,
\* generation is never invoked and no image is fetched; the answer is 400 when the
\* model and the processor are loaded, and 503 when they are not.
C9_ZeroPartsRejected ==
    (c_pc # "idle" /\ NormalizesToNothing(c_request.messages)) =>
        /\ c_pc # "generate"
        /\ c_gen_calls = 0
        /\ c_fetches = <<>>
        /\ (c_pc = "done" /\ c_loaded_at_call) => c_status = "400"
        /\ (c_pc = "done" /\ ~c_loaded_at_call) => c_status = "503"

C9_Witness ==
    /\ c_pc = "done"
    /\ c_loaded_at_call
    /\ NormalizesToNothing(c_request.messages)
    /\ Len(c_request.messages) = 2
    /\ c_request.messages[1].role = "tool"
    /\ c_request.messages[2].role = "user"
    /\ c_request.messages[2].items # <<>>
    /\ c_status = "400"
    /\ c_detail = <<"No valid messages provided">>

\* C10: once an image part has failed to fetch or to decode, the request is
\* answered 400, no later image part is fetched and generation is never invoked.
C10_ImageFailureIs400 ==
    (c_pc = "done" /\ c_bad_image # 0) =>
        /\ c_status = "400"
        /\ Len(c_fetches) = c_bad_image
        /\ c_gen_calls = 0

\* What holds of the failures raised inside fetch_image_from_url: the failed
\* fetch is the last one, the answer is 400 and generation is not invoked.
FetchExceptionAborts ==
    /\ \A i \in 1..(Len(c_fetches) - 1) : c_fetches[i].ok
    /\ (c_fetches # <<>> /\ ~c_fetches[Len(c_fetches)].ok) =>
          /\ c_pc = "done"
          /\ c_status = "400"
          /\ c_gen_calls = 0

\* The image references of a request that normalization resolves, in message
\* order and content-part order: every image_url item that has a url, in a message
\* of a supported role.
RECURSIVE ImageRefsFrom(_, _, _)
ImageRefsFrom(messages, mi, pi) ==
    IF mi > Len(messages)
    THEN <<>>
    ELSE IF \/ messages[mi].role \notin {"system", "user", "assistant"}
            \/ messages[mi].is_str
            \/ pi > Len(messages[mi].items)
         THEN ImageRefsFrom(messages, mi + 1, 1)
         ELSE LET item == messages[mi].items[pi] IN
              (IF item.type = "image_url" /\ item.url # ""
               THEN <<[mi |-> mi, pi |-> pi, url |-> item.url]>>
               ELSE <<>>)
              \o ImageRefsFrom(messages, mi, pi + 1)

ImageRefs(messages) == ImageRefsFrom(messages, 1, 1)

\* The fetch_image_from_url calls made so far, in the order they were made.
FetchedRefs ==
    [i \in 1..Len(c_fetches) |->
        [mi |-> c_fetches[i].mi, pi |-> c_fetches[i].pi, url |-> c_fetches[i].url]]

IsPrefix(s, t) == Len(s) <= Len(t) /\ s = SubSeq(t, 1, Len(s))

C12_NotLoadedIs503 ==
    (c_pc # "idle" /\ ~c_loaded_at_call) =>
        /\ c_pc = "done"
        /\ c_status = "503"
        /\ c_detail = <<"Model not loaded">>
        /\ c_fetches = <<>>
        /\ c_gen_calls = 0
        /\ c_qwen = <<>>

C12_Witness ==
    /\ c_pc = "done"
    /\ svc_pc = "boot"
    /\ ~c_loaded_at_call
    /\ c_request.stream
    /\ c_request.messages # <<>>
    /\ NormalizesToNothing(c_request.messages)
    /\ c_status = "503"

\* C13: with the model and the processor loaded, a request with stream: true is
\* answered 400 before normalization starts: no message is looked at, no image is
\* fetched, model.generate is not called.
C13_StreamRejectedFirst ==
    (c_pc # "idle" /\ c_loaded_at_call /\ c_request.stream) =>
        /\ c_pc = "done"
        /\ c_status = "400"
        /\ c_detail = <<"Streaming not supported yet">>
        /\ c_mi = 0
        /\ c_qwen = <<>>
        /\ c_fetches = <<>>
        /\ c_gen_calls = 0

C13_Witness ==
    /\ c_pc = "done"
    /\ c_loaded_at_call
    /\ c_request.stream
    /\ ImageRefs(c_request.messages) # <<>>
    /\ c_status = "400"
    /\ c_fetches = <<>>

\* The parts of the canonical messages built so far, in order.
RECURSIVE PartsOf(_)
PartsOf(qwen_messages) ==
    IF qwen_messages = <<>>
    THEN <<>>
    ELSE Head(qwen_messages).content \o PartsOf(Tail(qwen_messages))

IsImagePart(part) == part.type = "image"

CanonicalImages == SelectSeq(PartsOf(c_qwen) \o c_content_parts, IsImagePart)

\* PIL modes with an alpha channel.
HasAlpha(mode) == mode \in {"RGBA", "LA"}

\* C14, as claimed: no alpha-bearing bitmap reaches generation; the image part of
\* every decoded image whose mode has an alpha channel is RGB.
C14_Original ==
    c_gen_calls >= 1 =>
        \A k \in 1..Len(CanonicalImages) : ~HasAlpha(CanonicalImages[k].mode)

\* C14, amended: the image part of every image opened in mode RGBA is RGB, and the
\* image part of an image of any other mode, alpha-bearing or not, has that mode.
C14_RgbaFlattened ==
    /\ Len(CanonicalImages) <= Len(c_fetches)
    /\ Len(c_fetches) <= Len(CanonicalImages) + 1
    /\ \A k \in 1..Len(CanonicalImages) :
          /\ c_fetches[k].ok
          /\ CanonicalImages[k].mode # "RGBA"
          /\ CanonicalImages[k].mode =
                IF c_fetches[k].mode = "RGBA" THEN "RGB" ELSE c_fetches[k].mode

C14_Witness ==
    /\ c_pc = "done"
    /\ c_status = "200"
    /\ c_gen_calls = 1
    /\ Len(c_fetches) = 2
    /\ c_fetches[1].mode = "RGBA"
    /\ c_fetches[2].mode = "LA"
    /\ Len(CanonicalImages) = 2
    /\ CanonicalImages[1].mode = "RGB"
    /\ CanonicalImages[2].mode = "LA"

\* C15: a reference that begins with data:image is resolved without a network
\* call, and the network GET is made for the other references only.
C15_DataUrlNoNetwork ==
    \A i \in 1..Len(c_fetches) :
        c_fetches[i].network <=> c_fetches[i].url # "data:image/png;base64,AAAA"

C15_Witness ==
    /\ Len(c_fetches) = 2
    /\ c_fetches[1].url = "data:image/png;base64,AAAA"
    /\ c_fetches[1].ok
    /\ ~c_fetches[1].network
    /\ c_fetches[2].url = "data:text/plain;base64,AAAA"
    /\ c_fetches[2].network
    /\ Len(CanonicalImages) >= 1

\* C16: usage.prompt_tokens is the length of the input token sequence,
\* usage.completion_tokens the length of what model.generate returned less the
\* length of the prompt it starts with, and usage.total_tokens their sum.
C16_UsageCounts ==
    /\ (c_pc = "done" /\ c_status = "200") => c_usage # NoUsage
    /\ c_usage # NoUsage =>
          /\ c_usage.prompt_tokens = Len(c_input_ids)
          /\ c_usage.completion_tokens = Len(c_generated_ids) - Len(c_input_ids)
          /\ c_usage.total_tokens = c_usage.prompt_tokens + c_usage.completion_tokens
          /\ c_usage.total_tokens = Len(c_generated_ids)

C16_Witness ==
    /\ c_pc = "done"
    /\ c_status = "200"
    /\ Len(c_input_ids) = 2
    /\ Len(c_generated_ids) = 3
    /\ c_usage = [prompt_tokens |-> 2, completion_tokens |-> 1, total_tokens |-> 3]

\* The fetch made for the item pi of the message mi.
FetchAt(mi, pi) ==
    CHOOSE f \in {c_fetches[i] : i \in 1..Len(c_fetches)} : f.mi = mi /\ f.pi = pi

\* The parts the items pi.. of a message are to yield: a text part for a text
\* item, an image part for an image_url item that has a url, nothing otherwise.
RECURSIVE ExpectedParts(_, _, _)
ExpectedParts(message, mi, pi) ==
    IF pi > Len(message.items)
    THEN <<>>
    ELSE LET item == message.items[pi] IN
         (IF item.type = "text"
          THEN <<[type |-> "text", text |-> item.text, mode |-> "-", intact |-> TRUE]>>
          ELSE IF item.type = "image_url" /\ item.url # ""
          THEN <<[type |-> "image", text |-> "",
                  mode |-> IF FetchAt(mi, pi).mode = "RGBA"
                           THEN "RGB" ELSE FetchAt(mi, pi).mode,
                  intact |-> FetchAt(mi, pi).intact]>>
          ELSE <<>>)
         \o ExpectedParts(message, mi, pi + 1)

\* The messages mi.. restricted to those of a supported role that yield at least
\* one part, in their order.
RECURSIVE ExpectedMessages(_, _)
ExpectedMessages(messages, mi) ==
    IF mi > Len(messages)
    THEN <<>>
    ELSE (IF messages[mi].role \notin {"system", "user", "assistant"}
          THEN <<>>
          ELSE IF messages[mi].is_str
          THEN <<[role |-> messages[mi].role,
                  content |-> <<[type |-> "text", text |-> messages[mi].text,
                                 mode |-> "-", intact |-> TRUE]>>]>>
          ELSE IF ExpectedParts(messages[mi], mi, 1) = <<>>
          THEN <<>>
          ELSE <<[role |-> messages[mi].role,
                  content |-> ExpectedParts(messages[mi], mi, 1)]>>)
         \o ExpectedMessages(messages, mi + 1)

C18_DispatchOnMessages ==
    (h_pc # "idle" /\ h_input.kind = "dict") =>
        /\ h_input.messages =>
              /\ h_payload = h_input
              /\ h_result # MissingImageEnvelope
              /\ h_pc = "done" => h_posts >= 1
        /\ (~h_input.messages /\ h_input.image_url = "url") =>
              /\ h_payload # h_input
              /\ Len(h_payload.messages) = 1
              /\ h_payload.messages[1].role = "user"
              /\ h_payload.messages[1].content =
                    << [type |-> "text",
                        text |-> IF h_input.text = "absent"
                                 THEN "Describe this image" ELSE h_input.text],
                       [type |-> "image_url", image_url |-> [url |-> h_input.image_url]] >>
              /\ h_payload.max_tokens =
                    IF h_input.max_tokens = "absent" THEN "512" ELSE h_input.max_tokens
              /\ h_pc = "done" => h_posts >= 1
        /\ (~h_input.messages /\ h_input.image_url # "url") => h_posts = 0

C18_Witness ==
    /\ h_pc = "done"
    /\ h_input.kind = "dict"
    /\ h_input.messages
    /\ h_input.image_url = "absent"
    /\ h_payload = h_input
    /\ h_posts = 1
    /\ h_result.status = "success"

\* The model.generate calls made for an attempt of the job, and whether the
\* attempt ended on the failure of model.generate or of what follows it.
GenCalls(r) == IF "gen" \in DOMAIN r THEN r.gen ELSE 0

GenFailed(r) == "gen" \in DOMAIN r /\ r.gen_failed

\* C19, as claimed: a failure of generation is answered 500, and once generation
\* has failed for a job it is not invoked again for that job, the retry loop of
\* the orchestrator included.
C19_Original ==
    /\ \A i \in 1..Len(h_hist) : GenFailed(h_hist[i]) => h_hist[i].code = "500"
    /\ \A i \in 1..Len(h_hist) :
          GenFailed(h_hist[i]) =>
              /\ c_gen_calls = 0
              /\ \A j \in (i + 1)..Len(h_hist) : GenCalls(h_hist[j]) = 0

\* C19, amended: a failure of generation is answered 500 and chat_completions
\* does not call model.generate again for that request; the retry loop of the
\* orchestrator counts the 500 as a failed attempt like any other and posts the
\* job again, so that the job ends on it only at the last of the MAX_RETRIES
\* attempts, and model.generate is called at most MAX_RETRIES times for a job.
C19_NotRetriedLocally ==
    /\ c_gen_calls <= 1
    /\ Len(h_hist) <= MAX_RETRIES
    /\ \A i \in 1..Len(h_hist) :
          /\ GenCalls(h_hist[i]) <= 1
          /\ GenFailed(h_hist[i]) => h_hist[i].code = "500"
          /\ (GenFailed(h_hist[i]) /\ i < MAX_RETRIES) =>
                \/ h_pc \in {"post", "sleep"}
                \/ Len(h_hist) > i
    /\ (h_pc = "done" /\ h_hist # <<>> /\ GenFailed(h_hist[Len(h_hist)])) =>
          /\ Len(h_hist) = MAX_RETRIES
          /\ h_result = FailedEnvelope(attempt_error(h_hist[Len(h_hist)]))

C19_Witness ==
    /\ h_pc = "done"
    /\ Len(h_hist) = 3
    /\ \A i \in 1..3 : GenFailed(h_hist[i]) /\ GenCalls(h_hist[i]) = 1
    /\ h_result.status = "failed"

\* C20: in an invocation of handler, no POST is issued before the await-ready
\* phase has run: whenever a POST is under way or has been made, the health
\* endpoint has been polled.
C20_ReadinessGatesDispatch ==
    (h_posts > 0 \/ (h_pc = "post" /\ c_pc # "idle")) => w_polls > 0

(***************************************************************************)
(* Readiness as /health reports it, checked under SpecChat.                *)
(***************************************************************************)

\* What wait_for_service takes for ready in a /health response.
HealthSaysReady(report) == report.status = "healthy" /\ report.model_loaded

\* C21: once /health has answered "healthy" with model_loaded true, the model and
\* the processor are both set, and a chat request that arrives is not answered
\* 503 "Model not loaded"; no /health answer is given in the states of load_model
\* in which the model is set and the processor is not.
C21_ReadyImpliesAvailable ==
    /\ [](HealthSaysReady(svc_health) => (svc_model /\ svc_processor))
    /\ []((svc_model /\ ~svc_processor) => (c_pc = "idle" /\ svc_health = NoHealth))
    /\ [][(HealthSaysReady(svc_health) /\ c_pc = "idle" /\ c_pc' # "idle") =>
             (c_loaded_at_call' /\ c_status' # "503")]_vars

C21_Witness ==
    /\ svc_pc = "up"
    /\ HealthSaysReady(svc_health)
    /\ c_pc = "done"
    /\ c_loaded_at_call
    /\ c_status = "200"

(***************************************************************************)
(* The attempts process_request counts as successful, checked under        *)
(* SpecDispatch.                                                           *)
(***************************************************************************)

\* C22: process_request returns a success envelope only for an attempt answered
\* with status 200 and a body that parses as JSON, with that parsed body as its
\* output; an attempt answered with another status, or with 200 and a body that
\* does not parse, is a failed attempt: the next attempt follows while attempts
\* remain, and the job fails on it when it is the last.
C22_SuccessOnly200Json ==
    /\ (h_pc = "done" /\ h_result.status = "success") =>
          /\ h_hist # <<>>
          /\ h_hist[Len(h_hist)].kind = "resp"
          /\ h_hist[Len(h_hist)].code = "200"
          /\ h_hist[Len(h_hist)].json
          /\ h_result = [status |-> "success",
                         output |-> <<"json", h_hist[Len(h_hist)].body>>]
    /\ \A i \in 1..Len(h_hist) :
          (h_hist[i].kind = "resp" /\ (h_hist[i].code # "200" \/ ~h_hist[i].json)) =>
              /\ i < Len(h_hist) \/ h_pc = "sleep" \/ (h_pc = "post" /\ i < 3)
                 \/ (h_pc = "done" /\ i = 3 /\ h_result.status = "failed")
              /\ i < 3 => h_pc # "done" \/ i < Len(h_hist)

C22_Witness ==
    /\ h_pc = "done"
    /\ Len(h_hist) = 3
    /\ h_hist[1].kind = "resp" /\ h_hist[1].code = "201" /\ h_hist[1].json
    /\ h_hist[2].kind = "resp" /\ h_hist[2].code = "200" /\ ~h_hist[2].json
    /\ h_hist[3].kind = "resp" /\ h_hist[3].code = "200" /\ h_hist[3].json
    /\ h_result = [status |-> "success", output |-> <<"json", h_hist[3].body>>]
====
